---- MODULE Spec2Model ----
(***************************************************************************)
(* Model of types/decimal.go: the fixed-point decimal type Dec, a struct   *)
(* holding one pointer to an arbitrary-precision integer (the scaled       *)
(* representation, value * 10^Precision).                                  *)
(*                                                                         *)
(* TLC's integers are 32 bits wide, and the code multiplies a scaled       *)
(* integer by 10^Precision twice (QuoMut) and squares it (MulMut).  The    *)
(* model therefore runs the same code at a smaller scale: ModelPrecision   *)
(* fractional digits instead of 18, a companion Int of ModelIntBitLen bits *)
(* instead of 256, and a root argument of ModelRootBits bits instead of    *)
(* 64.  Everything derived from them (precisionReuse, fivePrecision,       *)
(* DecimalPrecisionBits, maxDecBitLen, MaxSortableDec, the int64           *)
(* conversion of root) is computed from them by the source's own formula.  *)
(***************************************************************************)
EXTENDS Integers, Sequences, FiniteSets, TLC

-----------------------------------------------------------------------------
(* Bounds of the model *)

\* fractional digits of the model (the source has 18)
ModelPrecision == 1
\* bit bound of the companion Int type (the source has 256)
ModelIntBitLen == 7
\* width of the uint64/int64 root argument of ApproxRoot (the source has 64)
ModelRootBits == 4
\* largest magnitude of the int64 arguments drawn by the operations
MaxInt64Arg == 3

-----------------------------------------------------------------------------
(* math/big primitives used by the code *)

RECURSIVE Pow10(_)
Pow10(n) == IF n = 0 THEN 1 ELSE 10 * Pow10(n - 1)

RECURSIVE Pow2(_)
Pow2(n) == IF n = 0 THEN 1 ELSE 2 * Pow2(n - 1)

\* big.Int.Abs
AbsInt(n) == IF n < 0 THEN -n ELSE n

\* big.Int.Sign
Sign(n) == IF n < 0 THEN -1 ELSE IF n = 0 THEN 0 ELSE 1

RECURSIVE NatBitLen(_)
NatBitLen(n) == IF n = 0 THEN 0 ELSE 1 + NatBitLen(n \div 2)

\* big.Int.BitLen: the length of the absolute value in bits
BitLen(n) == NatBitLen(AbsInt(n))

\* big.Int.Quo: truncated division (rounds toward zero); the divisor is not 0
TQuo(a, b) ==
    LET q == AbsInt(a) \div AbsInt(b)
    IN  IF Sign(a) * Sign(b) < 0 THEN -q ELSE q

\* big.Int.Rem: the remainder of truncated division, with the dividend's sign
TRem(a, b) == a - b * TQuo(a, b)

-----------------------------------------------------------------------------
(* Constants of decimal.go *)

Precision == ModelPrecision

\* Ceiling[Log2[10^Precision - 1]]
DecimalPrecisionBits == BitLen(Pow10(Precision) - 1)

decimalTruncateBits == DecimalPrecisionBits - 1

maxBitLen == ModelIntBitLen

maxDecBitLen == maxBitLen + decimalTruncateBits

maxApproxRootIterations == 100

precisionReuse == Pow10(Precision)

fivePrecision == precisionReuse \div 2

\* calcPrecisionMultiplier / precisionMultiplier, for prec <= Precision
precisionMultiplier(prec) == Pow10(Precision - prec)

-----------------------------------------------------------------------------
(* Rounding primitives, on the value of the big.Int they mutate in place *)

\* chopPrecisionAndRound with a tie always rounded up (half-up)
chopPrecisionAndRoundHalfUp(d) ==
    LET quo == AbsInt(d) \div precisionReuse
        rem == AbsInt(d) % precisionReuse
    IN  Sign(d) * (IF rem < fivePrecision THEN quo ELSE quo + 1)

RECURSIVE chopPrecisionAndRound(_)
chopPrecisionAndRound(d) ==
    IF d < 0
    THEN -chopPrecisionAndRound(-d)
    ELSE LET quo == d \div precisionReuse
             rem == d % precisionReuse
         IN  IF rem = 0 THEN quo
             ELSE IF rem < fivePrecision THEN quo
             ELSE IF rem > fivePrecision THEN quo + 1
             ELSE IF quo % 2 = 0 THEN quo
             ELSE quo + 1

chopPrecisionAndTruncate(d) == TQuo(d, precisionReuse)

\* chopPrecisionAndRoundUp with a negative d rounded away from zero
chopPrecisionAndRoundUpAway(d) ==
    LET quo == AbsInt(d) \div precisionReuse
        rem == AbsInt(d) % precisionReuse
    IN  Sign(d) * (IF rem = 0 THEN quo ELSE quo + 1)

chopPrecisionAndRoundUp(d) ==
    IF d < 0
    THEN -chopPrecisionAndTruncate(-d)
    ELSE LET quo == d \div precisionReuse
             rem == d % precisionReuse
         IN  IF rem = 0 THEN quo ELSE quo + 1

-----------------------------------------------------------------------------
(* Storage.  A Dec is a pointer to a big.Int: a cell of the memory m, or    *)
(* NilPtr for the absent Dec.  A mutable operation is a function of the    *)
(* memory, the receiver's cell p and the operand's cell q, which may be the *)
(* same cell; it returns the memory it leaves and whether it panicked.     *)

NCells == 5

Cells == 1..NCells

NilPtr == 0

\* scratch cell of a local big.Int
TmpCell == NCells + 1

Done(m) == [mem |-> m, panic |-> FALSE]

Panic(m) == [mem |-> m, panic |-> TRUE]

\* the memories of the big.Ints
Mem == [1..TmpCell -> Int]

\* the statements after a call (rest, a function of the memory the call has
\* left) run unless the call has panicked
Then(s, rest) ==
    CHOOSE t \in {IF u.panic THEN u ELSE rest[u.mem] : u \in {s}} : TRUE

\* the big.Int of cell c is garbage once the function returns or panics
Release(s, c) ==
    CHOOSE t \in {[mem |-> [u.mem EXCEPT ![c] = 0], panic |-> u.panic] : u \in {s}} : TRUE

\* if d.i.BitLen() > maxDecBitLen { panic("Int overflow") }
CheckBitLen(m, p) == IF BitLen(m[p]) > maxDecBitLen THEN Panic(m) ELSE Done(m)

AddMut(m, p, q) == CheckBitLen([m EXCEPT ![p] = m[p] + m[q]], p)

SubMut(m, p, q) == CheckBitLen([m EXCEPT ![p] = m[p] - m[q]], p)

MulMut(m, p, q) ==
    LET m1 == [m EXCEPT ![p] = m[p] * m[q]]
        m2 == [m1 EXCEPT ![p] = chopPrecisionAndRound(m1[p])]
    IN  CheckBitLen(m2, p)

MulTruncateMut(m, p, q) ==
    LET m1 == [m EXCEPT ![p] = m[p] * m[q]]
        m2 == [m1 EXCEPT ![p] = chopPrecisionAndTruncate(m1[p])]
    IN  CheckBitLen(m2, p)

\* MulIntMut and MulInt64Mut: i is the integer operand
MulIntMut(m, p, i) == CheckBitLen([m EXCEPT ![p] = m[p] * i], p)

\* the three statements that QuoMut, QuoTruncateMut and QuoRoundupMut share;
\* big.Int.Quo panics on a zero divisor
QuoScaled(m, p, q) ==
    LET m1 == [m EXCEPT ![p] = m[p] * precisionReuse]
        m2 == [m1 EXCEPT ![p] = m1[p] * precisionReuse]
    IN  IF m2[q] = 0 THEN Panic(m2)
        ELSE Done([m2 EXCEPT ![p] = TQuo(m2[p], m2[q])])

QuoMut(m, p, q) ==
    LET s == QuoScaled(m, p, q)
    IN  IF s.panic THEN s
        ELSE CheckBitLen([s.mem EXCEPT ![p] = chopPrecisionAndRound(s.mem[p])], p)

QuoTruncateMut(m, p, q) ==
    LET s == QuoScaled(m, p, q)
    IN  IF s.panic THEN s
        ELSE CheckBitLen([s.mem EXCEPT ![p] = chopPrecisionAndTruncate(s.mem[p])], p)

QuoRoundupMut(m, p, q) ==
    LET s == QuoScaled(m, p, q)
    IN  IF s.panic THEN s
        ELSE CheckBitLen([s.mem EXCEPT ![p] = chopPrecisionAndRoundUp(s.mem[p])], p)

\* QuoIntMut and QuoInt64Mut: no rounding and no bit-length check
QuoIntMut(m, p, i) ==
    IF i = 0 THEN Panic(m) ELSE Done([m EXCEPT ![p] = TQuo(m[p], i)])

NegMut(m, p) == Done([m EXCEPT ![p] = -m[p]])

\* Set copies the value of d2 into the big.Int of d
Set(m, p, q) == Done([m EXCEPT ![p] = m[q]])

SetInt64(m, p, i) == Done([m EXCEPT ![p] = i * precisionReuse])

\* the loop of PowerMut; t is the cell of tmp
RECURSIVE PowerLoop(_, _, _, _)
PowerLoop(m, p, t, i) ==
    IF i > 1
    THEN Then(Then(IF i % 2 # 0 THEN MulMut(m, t, p) ELSE Done(m),
                   [m1 \in Mem |-> MulMut(m1, p, p)]),
              [m2 \in Mem |-> PowerLoop(m2, p, t, i \div 2)])
    ELSE Done(m)

PowerMut(m, p, power) ==
    IF power = 0 THEN SetInt64(m, p, 1)
    ELSE Release(Then(PowerLoop([m EXCEPT ![TmpCell] = precisionReuse],
                                p, TmpCell, power),
                      [m1 \in Mem |-> MulMut(m1, p, TmpCell)]),
                 TmpCell)

\* the mutable method named mut, on the big.Int of cell c with operand a (a
\* cell or an integer)
OpMut(mut, m, c, a) ==
    CASE mut = "AddMut" -> AddMut(m, c, a)
      [] mut = "SubMut" -> SubMut(m, c, a)
      [] mut = "MulMut" -> MulMut(m, c, a)
      [] mut = "MulTruncateMut" -> MulTruncateMut(m, c, a)
      [] mut = "QuoMut" -> QuoMut(m, c, a)
      [] mut = "QuoTruncateMut" -> QuoTruncateMut(m, c, a)
      [] mut = "QuoRoundupMut" -> QuoRoundupMut(m, c, a)
      [] mut = "MulIntMut" -> MulIntMut(m, c, a)
      [] mut = "QuoIntMut" -> QuoIntMut(m, c, a)
      [] mut = "PowerMut" -> PowerMut(m, c, a)
      [] mut = "SetInt64" -> SetInt64(m, c, a)
      [] mut = "Set" -> Set(m, c, a)
      [] mut = "NegMut" -> NegMut(m, c)

-----------------------------------------------------------------------------
(* Text.  A string is a sequence of one-character strings. *)

DigitChars == <<"0", "1", "2", "3", "4", "5", "6", "7", "8", "9">>

IsDigit(c) == \E i \in 1..10 : DigitChars[i] = c

DigitVal(c) == (CHOOSE i \in 1..10 : DigitChars[i] = c) - 1

\* fmt.Sprintf("%0<n>s", ""): n zero characters
Zeros(n) == [i \in 1..n |-> "0"]

\* fmt.Sprintf("%0<width>s", str): str left-padded with zeros to width
PadZeros(width, str) ==
    IF Len(str) >= width THEN str ELSE Zeros(width - Len(str)) \o str

\* the decimal digits of a natural number, most significant first
RECURSIVE NatText(_)
NatText(n) ==
    IF n < 10 THEN <<DigitChars[n + 1]>>
    ELSE NatText(n \div 10) \o <<DigitChars[(n % 10) + 1]>>

\* big.Int.MarshalText / big.Int.String
MarshalText(v) == IF v < 0 THEN <<"-">> \o NatText(-v) ELSE NatText(v)

\* the value of a non-empty sequence of digits
RECURSIVE DigitsVal(_)
DigitsVal(str) ==
    IF Len(str) = 0 THEN 0
    ELSE 10 * DigitsVal(SubSeq(str, 1, Len(str) - 1)) + DigitVal(str[Len(str)])

AllDigits(str) == \A i \in 1..Len(str) : IsDigit(str[i])

\* big.Int.SetString(str, 10): an optional sign, "+" or "-", then one or
\* more digits and nothing else
SetString(str) ==
    LET signed == Len(str) > 0 /\ str[1] \in {"+", "-"}
        body   == IF signed THEN SubSeq(str, 2, Len(str)) ELSE str
    IN  IF Len(body) = 0 \/ ~AllDigits(body) THEN [ok |-> FALSE, v |-> 0]
        ELSE [ok |-> TRUE,
              v  |-> IF signed /\ str[1] = "-" THEN -DigitsVal(body)
                     ELSE DigitsVal(body)]

\* strings.Split(str, "."): the segments between the points
RECURSIVE Split(_)
Split(str) ==
    IF \A i \in 1..Len(str) : str[i] # "."
    THEN <<str>>
    ELSE LET k == CHOOSE i \in 1..Len(str) :
                      str[i] = "." /\ \A j \in 1..(i - 1) : str[j] # "."
         IN  <<SubSeq(str, 1, k - 1)>> \o Split(SubSeq(str, k + 1, Len(str)))

NoErr == "nil"

DecErr(e) == [v |-> 0, nil |-> TRUE, err |-> e]

NewDecFromStr(str0) ==
    IF Len(str0) = 0 THEN DecErr("ErrEmptyDecimalStr")
    ELSE
    LET neg  == str0[1] = "-"
        str  == IF neg THEN SubSeq(str0, 2, Len(str0)) ELSE str0
    IN
    IF Len(str) = 0 THEN DecErr("ErrEmptyDecimalStr")
    ELSE
    LET strs    == Split(str)
        lenDecs == IF Len(strs) = 2 THEN Len(strs[2]) ELSE 0
    IN
    IF Len(strs) = 2 /\ (lenDecs = 0 \/ Len(strs[1]) = 0)
    THEN DecErr("ErrInvalidDecimalLength")
    ELSE IF Len(strs) > 2 THEN DecErr("ErrInvalidDecimalStr")
    ELSE IF lenDecs > Precision THEN DecErr("invalid precision")
    ELSE
    LET combinedStr == (IF Len(strs) = 2 THEN strs[1] \o strs[2] ELSE strs[1])
                           \o Zeros(Precision - lenDecs)
        combined    == SetString(combinedStr)
    IN
    IF ~combined.ok THEN DecErr("failed to set decimal string")
    ELSE IF BitLen(combined.v) > maxDecBitLen THEN DecErr("decimal out of range")
    ELSE [v |-> IF neg THEN -combined.v ELSE combined.v, nil |-> FALSE, err |-> NoErr]

\* String with the purely-decimal case decided by < instead of <=
StringOffByOne(v) ==
    LET isNeg     == v < 0
        bzInt     == MarshalText(AbsInt(v))
        inputSize == Len(bzInt)
        bzStr     == IF inputSize < Precision
                     THEN <<"0", ".">> \o Zeros(Precision - inputSize) \o bzInt
                     ELSE SubSeq(bzInt, 1, inputSize - Precision) \o <<".">>
                              \o SubSeq(bzInt, inputSize - Precision + 1, inputSize)
    IN  IF isNeg THEN <<"-">> \o bzStr ELSE bzStr

\* Dec.String of a present Dec with scaled integer v
String(v) ==
    LET isNeg     == v < 0
        bzInt     == MarshalText(AbsInt(v))
        inputSize == Len(bzInt)
        bzStr     == IF inputSize <= Precision
                     THEN <<"0", ".">> \o Zeros(Precision - inputSize) \o bzInt
                     ELSE SubSeq(bzInt, 1, inputSize - Precision) \o <<".">>
                              \o SubSeq(bzInt, inputSize - Precision + 1, inputSize)
    IN  IF isNeg THEN <<"-">> \o bzStr ELSE bzStr

-----------------------------------------------------------------------------
(* The program state: three Dec variables of a caller, x and y (receivers  *)
(* and operands) and r (results), and the big.Ints they point to.          *)

\* number of calls of one run
MaxSteps == 1

VARIABLES
    mem,      \* the big.Ints: cell -> value
    reg,      \* the Dec variables: name -> cell, or NilPtr (Dec{})
    status,   \* "run", or "panic" once a call has panicked
    last,     \* the last call: operation, receiver, operand, values before, error
    steps,    \* number of calls made
    str,      \* the string under test (parsing and formatting)
    parsed,   \* the result of NewDecFromStr(str)
    text,     \* the rendering of the parsed Dec
    reparsed, \* the result of NewDecFromStr(text)
    st,       \* statements of ApproxRoot: frame, position, locals, result
    sa, sb,   \* the two Decs under test (sortable encoding)
    ka, kb    \* their sortable bytes

vars == <<mem, reg, status, last, steps, str, parsed, text, reparsed, st,
          sa, sb, ka, kb>>

AllCells == 1..TmpCell

Names == {"x", "y", "r"}

\* receivers and operands of the calls
Operands == {"x", "y"}

\* the value of the Dec variable n (0 stands in for the absent Dec)
Val(n) == IF reg[n] = NilPtr THEN 0 ELSE mem[reg[n]]

NoCall == [op |-> "none", kind |-> "none", p |-> "-", q |-> "-", dst |-> "-",
           a |-> 0, b |-> 0, err |-> NoErr,
           pre |-> [n \in Names |-> 0], nil |-> {}, sh |-> {}]

\* the record of a call: operation op of the given kind, receiver p, operand
\* q, result variable dst, arguments a and b, returned error; and, from the
\* state before the call, the values of the variables (pre), the absent
\* ones (nil) and those sharing the receiver's big.Int (sh)
Call(op, kind, p, q, dst, a, b, err) ==
    [op |-> op, kind |-> kind, p |-> p, q |-> q, dst |-> dst,
     a |-> a, b |-> b, err |-> err,
     pre |-> [n \in Names |-> Val(n)],
     nil |-> {n \in Names : reg[n] = NilPtr},
     sh  |-> {n \in Names : p \in Names /\ reg[n] # NilPtr /\ reg[n] = reg[p]}]

\* reclaim the big.Ints that no Dec variable points to
Collect(m, rg) ==
    [c \in AllCells |-> IF \E n \in Names : rg[n] = c THEN m[c] ELSE 0]

\* new(big.Int): the first cell that no variable points to
FreshCell ==
    CHOOSE c \in Cells :
        /\ \A n \in Names : reg[n] # c
        /\ \A e \in Cells : (\A n \in Names : reg[n] # e) => c <= e

-----------------------------------------------------------------------------
(* Idle parts: each specification moves its own variables only *)

\* no result yet
NotYet == [v |-> 0, nil |-> TRUE, err |-> "not called"]

IdleStr == str = <<>> /\ parsed = NotYet /\ text = <<>> /\ reparsed = NotYet

IdleRoot == st = [pc |-> "idle"]

IdleSort == sa = 0 /\ sb = 0 /\ ka = <<>> /\ kb = <<>>

IdleProg ==
    /\ mem = [c \in AllCells |-> 0]
    /\ reg = [n \in Names |-> NilPtr]
    /\ status = "run"
    /\ last = NoCall
    /\ steps = 0

\* the largest scaled integer within the bit bound
MaxDecVal == Pow2(maxDecBitLen) - 1

\* scaled integers of the Decs the caller holds at the start, each within
\* the bit bound (NewDecFromStr constructs every such value)
InitVals ==
    { 0, 1, fivePrecision, precisionReuse, -(precisionReuse + fivePrecision),
      -(2 * precisionReuse + fivePrecision), MaxDecVal }

\* x and y are absent (Dec{}) or constructed; y may be a copy of the struct
\* x, sharing its big.Int; r is absent
Init ==
    /\ \E vx \in InitVals, vy \in InitVals,
          hx \in BOOLEAN, hy \in {"nil", "own", "shared"} :
        /\ hy = "shared" => hx
        /\ ~hx => vx = 0
        /\ hy # "own" => vy = 0
        /\ reg = [n \in Names |->
                    IF n = "x" THEN (IF hx THEN 1 ELSE NilPtr)
                    ELSE IF n = "y"
                    THEN (IF hy = "nil" THEN NilPtr
                          ELSE IF hy = "shared" THEN 1 ELSE 2)
                    ELSE NilPtr]
        /\ mem = [c \in AllCells |->
                    IF c = 1 /\ hx THEN vx
                    ELSE IF c = 2 /\ hy = "own" THEN vy ELSE 0]
    /\ status = "run"
    /\ last = NoCall
    /\ steps = 0
    /\ IdleStr /\ IdleRoot /\ IdleSort

Others == <<str, parsed, text, reparsed, st, sa, sb, ka, kb>>

-----------------------------------------------------------------------------
(* Calls.  A call that panics aborts the caller: status becomes "panic"    *)
(* and nothing is called after it.                                         *)

CanCall == status = "run" /\ steps < MaxSteps

\* dst = <constructor>(...): the new Dec has scaled integer v
Construct(op, dst, v, a, b) ==
    LET c == FreshCell
        rg == [reg EXCEPT ![dst] = c]
    IN  /\ reg' = rg
        /\ mem' = Collect([mem EXCEPT ![c] = v], rg)
        /\ status' = "run"
        /\ last' = Call(op, "ctor", "-", "-", dst, a, b, NoErr)
        /\ steps' = steps + 1
        /\ UNCHANGED Others

\* the call panics; m is the memory it leaves
Abort(op, kind, p, q, a, b, m) ==
    /\ reg' = reg
    /\ mem' = Collect(m, reg)
    /\ status' = "panic"
    /\ last' = Call(op, kind, p, q, "-", a, b, NoErr)
    /\ steps' = steps + 1
    /\ UNCHANGED Others

\* the call returns; m is the memory and rg the variables it leaves
Return(op, kind, p, q, dst, a, b, err, m, rg) ==
    /\ reg' = rg
    /\ mem' = Collect(m, rg)
    /\ status' = "run"
    /\ last' = Call(op, kind, p, q, dst, a, b, err)
    /\ steps' = steps + 1
    /\ UNCHANGED Others

\* ImmutOp without the Clone: OpMut runs on the receiver's own big.Int
ImmutOpNoClone(op, mut, p, q) ==
        IF reg[p] = NilPtr \/ reg[q] = NilPtr
        THEN Abort(op, "immut", p, q, Val(p), Val(q), mem)
        ELSE LET out == OpMut(mut, mem, reg[p], reg[q])
             IN  IF out.panic
                 THEN Abort(op, "immut", p, q, Val(p), Val(q), out.mem)
                 ELSE Return(op, "immut", p, q, "r", Val(p), Val(q), NoErr,
                             out.mem, [reg EXCEPT !["r"] = reg[p]])

\* r = p.Op(q), with Op == p.ImmutOp(OpMut, q): OpMut runs on p.Clone()
ImmutOp(op, mut, p, q) ==
        IF reg[p] = NilPtr \/ reg[q] = NilPtr
        THEN Abort(op, "immut", p, q, Val(p), Val(q), mem)
        ELSE LET c   == FreshCell
                 out == OpMut(mut, [mem EXCEPT ![c] = mem[reg[p]]], c, reg[q])
             IN  IF out.panic
                 THEN Abort(op, "immut", p, q, Val(p), Val(q), out.mem)
                 ELSE Return(op, "immut", p, q, "r", Val(p), Val(q), NoErr,
                             out.mem, [reg EXCEPT !["r"] = c])

\* p.OpMut(q): OpMut runs on the big.Int of p and returns p
MutOp(op, mut, p, q) ==
        IF reg[p] = NilPtr \/ reg[q] = NilPtr
        THEN Abort(op, "mut", p, q, Val(p), Val(q), mem)
        ELSE LET out == OpMut(mut, mem, reg[p], reg[q])
             IN  IF out.panic
                 THEN Abort(op, "mut", p, q, Val(p), Val(q), out.mem)
                 ELSE Return(op, "mut", p, q, p, Val(p), Val(q), NoErr,
                             out.mem, reg)

\* r = p.Op(i), with Op == p.ImmutOpInt(OpMut, i) or p.ImmutOpInt64(OpMut, i)
ImmutOpInt(op, mut, p, i) ==
        IF reg[p] = NilPtr
        THEN Abort(op, "immut", p, "-", Val(p), i, mem)
        ELSE LET c   == FreshCell
                 out == OpMut(mut, [mem EXCEPT ![c] = mem[reg[p]]], c, i)
             IN  IF out.panic
                 THEN Abort(op, "immut", p, "-", Val(p), i, out.mem)
                 ELSE Return(op, "immut", p, "-", "r", Val(p), i, NoErr,
                             out.mem, [reg EXCEPT !["r"] = c])

\* p.OpMut(i) with an integer operand
MutOpInt(op, mut, p, i) ==
        IF reg[p] = NilPtr
        THEN Abort(op, "mut", p, "-", Val(p), i, mem)
        ELSE LET out == OpMut(mut, mem, reg[p], i)
             IN  IF out.panic
                 THEN Abort(op, "mut", p, "-", Val(p), i, out.mem)
                 ELSE Return(op, "mut", p, "-", p, Val(p), i, NoErr,
                             out.mem, reg)

\* r = p.Op(): a new Dec with scaled integer v; p is only read
NewFrom(op, p, v) ==
        IF reg[p] = NilPtr
        THEN Abort(op, "immut", p, "-", Val(p), 0, mem)
        ELSE LET c == FreshCell
             IN  Return(op, "immut", p, "-", "r", Val(p), 0, NoErr,
                        [mem EXCEPT ![c] = v],
                        [reg EXCEPT !["r"] = c])

-----------------------------------------------------------------------------
(* Arguments drawn by the calls *)

\* int64 arguments
Int64Args == {-MaxInt64Arg, -1, 0, 2, MaxInt64Arg}

\* the largest Int of the companion type: maxBitLen bits
MaxInt == Pow2(maxBitLen) - 1

\* Int (and big.Int) arguments, the extremes of the companion type included
IntArgs == {-MaxInt, -1, 0, 2, MaxInt}

\* largest exponent passed to Power
MaxPower == 3

PowerArgs == 0..MaxPower

\* strings passed to NewDecFromStr and, quoted, to UnmarshalJSON
StrArgs ==
    { <<>>, <<"2">>, <<"-", "1", ".", "5">>, <<"0", ".", "5">>, <<"1", ".">>,
      <<"x">>, NatText(MaxDecVal + 1) }

\* wire texts passed to Unmarshal: empty, malformed, and what Marshal emits
WireArgs ==
    { <<>>, <<"x">> } \cup
    { MarshalText(v) : v \in {0, 7, -precisionReuse, MaxDecVal, MaxDecVal + 1} }

-----------------------------------------------------------------------------
(* Constructors *)

\* NewDec(i) is NewDecWithPrec(i, 0); a prec above Precision panics
NewDecWithPrec ==
    /\ CanCall
    /\ \E dst \in Operands, i \in Int64Args, prec \in 0..(Precision + 1) :
        IF prec > Precision
        THEN Abort("NewDecWithPrec", "ctor", "-", "-", i, prec, mem)
        ELSE Construct("NewDecWithPrec", dst, i * precisionMultiplier(prec), i, prec)

\* NewDecFromInt(i) is NewDecFromIntWithPrec(i, 0)
NewDecFromIntWithPrec ==
    /\ CanCall
    /\ \E dst \in Operands, i \in IntArgs, prec \in 0..(Precision + 1) :
        IF prec > Precision
        THEN Abort("NewDecFromIntWithPrec", "ctor", "-", "-", i, prec, mem)
        ELSE Construct("NewDecFromIntWithPrec", dst,
                       i * precisionMultiplier(prec), i, prec)

\* NewDecFromBigInt(i) is NewDecFromBigIntWithPrec(i, 0)
NewDecFromBigIntWithPrec ==
    /\ CanCall
    /\ \E dst \in Operands, i \in IntArgs, prec \in 0..(Precision + 1) :
        IF prec > Precision
        THEN Abort("NewDecFromBigIntWithPrec", "ctor", "-", "-", i, prec, mem)
        ELSE Construct("NewDecFromBigIntWithPrec", dst,
                       i * precisionMultiplier(prec), i, prec)

\* dst, err = NewDecFromStr(s): on an error dst is Dec{}
CallNewDecFromStr ==
    /\ CanCall
    /\ \E dst \in Operands, s \in StrArgs :
        LET d == NewDecFromStr(s)
        IN  IF d.nil
            THEN Return("NewDecFromStr", "ctor", "-", "-", dst, 0, 0, d.err,
                        mem, [reg EXCEPT ![dst] = NilPtr])
            ELSE Construct("NewDecFromStr", dst, d.v, 0, 0)

\* dst = src: the struct is copied, the big.Int is shared
Assign ==
    /\ CanCall
    /\ \E dst \in Names, src \in Names :
        /\ dst # src
        /\ Return("Assign", "move", src, "-", dst, Val(src), 0, NoErr,
                  mem, [reg EXCEPT ![dst] = reg[src]])

-----------------------------------------------------------------------------
(* Arithmetic, immutable and mutable forms *)

Add ==
    /\ CanCall
    /\ \E p \in Operands, q \in Operands : ImmutOp("Add", "AddMut", p, q)

CallAddMut ==
    /\ CanCall
    /\ \E p \in Operands, q \in Operands : MutOp("AddMut", "AddMut", p, q)

Sub ==
    /\ CanCall
    /\ \E p \in Operands, q \in Operands : ImmutOp("Sub", "SubMut", p, q)

CallSubMut ==
    /\ CanCall
    /\ \E p \in Operands, q \in Operands : MutOp("SubMut", "SubMut", p, q)

Mul ==
    /\ CanCall
    /\ \E p \in Operands, q \in Operands : ImmutOp("Mul", "MulMut", p, q)

CallMulMut ==
    /\ CanCall
    /\ \E p \in Operands, q \in Operands : MutOp("MulMut", "MulMut", p, q)

MulTruncate ==
    /\ CanCall
    /\ \E p \in Operands, q \in Operands : ImmutOp("MulTruncate", "MulTruncateMut", p, q)

CallMulTruncateMut ==
    /\ CanCall
    /\ \E p \in Operands, q \in Operands : MutOp("MulTruncateMut", "MulTruncateMut", p, q)

Quo ==
    /\ CanCall
    /\ \E p \in Operands, q \in Operands : ImmutOp("Quo", "QuoMut", p, q)

CallQuoMut ==
    /\ CanCall
    /\ \E p \in Operands, q \in Operands : MutOp("QuoMut", "QuoMut", p, q)

QuoTruncate ==
    /\ CanCall
    /\ \E p \in Operands, q \in Operands : ImmutOp("QuoTruncate", "QuoTruncateMut", p, q)

CallQuoTruncateMut ==
    /\ CanCall
    /\ \E p \in Operands, q \in Operands : MutOp("QuoTruncateMut", "QuoTruncateMut", p, q)

QuoRoundUp ==
    /\ CanCall
    /\ \E p \in Operands, q \in Operands : ImmutOp("QuoRoundUp", "QuoRoundupMut", p, q)

CallQuoRoundupMut ==
    /\ CanCall
    /\ \E p \in Operands, q \in Operands : MutOp("QuoRoundupMut", "QuoRoundupMut", p, q)

MulInt ==
    /\ CanCall
    /\ \E p \in Operands, i \in IntArgs : ImmutOpInt("MulInt", "MulIntMut", p, i)

CallMulIntMut ==
    /\ CanCall
    /\ \E p \in Operands, i \in IntArgs : MutOpInt("MulIntMut", "MulIntMut", p, i)

MulInt64 ==
    /\ CanCall
    /\ \E p \in Operands, i \in Int64Args : ImmutOpInt("MulInt64", "MulIntMut", p, i)

MulInt64Mut ==
    /\ CanCall
    /\ \E p \in Operands, i \in Int64Args : MutOpInt("MulInt64Mut", "MulIntMut", p, i)

QuoInt ==
    /\ CanCall
    /\ \E p \in Operands, i \in IntArgs : ImmutOpInt("QuoInt", "QuoIntMut", p, i)

CallQuoIntMut ==
    /\ CanCall
    /\ \E p \in Operands, i \in IntArgs : MutOpInt("QuoIntMut", "QuoIntMut", p, i)

QuoInt64 ==
    /\ CanCall
    /\ \E p \in Operands, i \in Int64Args : ImmutOpInt("QuoInt64", "QuoIntMut", p, i)

QuoInt64Mut ==
    /\ CanCall
    /\ \E p \in Operands, i \in Int64Args : MutOpInt("QuoInt64Mut", "QuoIntMut", p, i)

\* Power copies the receiver and calls PowerMut on the copy
Power ==
    /\ CanCall
    /\ \E p \in Operands, i \in PowerArgs : ImmutOpInt("Power", "PowerMut", p, i)

CallPowerMut ==
    /\ CanCall
    /\ \E p \in Operands, i \in PowerArgs : MutOpInt("PowerMut", "PowerMut", p, i)

CallSetInt64 ==
    /\ CanCall
    /\ \E p \in Operands, i \in Int64Args : MutOpInt("SetInt64", "SetInt64", p, i)

CallSet ==
    /\ CanCall
    /\ \E p \in Operands, q \in Operands : MutOp("Set", "Set", p, q)

-----------------------------------------------------------------------------
(* Unary operations that return a new Dec *)

Neg(v) == -v

Abs(v) == AbsInt(v)

\* NewDecFromBigInt(chopPrecisionAndTruncateNonMutative(d.i))
TruncateDec(v) == chopPrecisionAndTruncate(v) * precisionMultiplier(0)

Ceil(v) ==
    LET quo == TQuo(v, precisionReuse)
        rem == TRem(v, precisionReuse)
    IN  IF rem = 0 THEN quo * precisionMultiplier(0)
        ELSE IF rem < 0 THEN quo * precisionMultiplier(0)
        ELSE (quo + 1) * precisionMultiplier(0)

CallNeg ==
    /\ CanCall
    /\ \E p \in Operands : NewFrom("Neg", p, Neg(Val(p)))

CallNegMut ==
    /\ CanCall
    /\ \E p \in Operands : MutOpInt("NegMut", "NegMut", p, 0)

CallAbs ==
    /\ CanCall
    /\ \E p \in Operands : NewFrom("Abs", p, Abs(Val(p)))

CallCeil ==
    /\ CanCall
    /\ \E p \in Operands : NewFrom("Ceil", p, Ceil(Val(p)))

CallTruncateDec ==
    /\ CanCall
    /\ \E p \in Operands : NewFrom("TruncateDec", p, TruncateDec(Val(p)))

\* dst = p.Clone(): a new big.Int set to the value of p
Clone ==
    /\ CanCall
    /\ \E p \in Operands, dst \in Names :
        /\ dst # p
        /\ IF reg[p] = NilPtr
           THEN Abort("Clone", "immut", p, "-", Val(p), 0, mem)
           ELSE LET c == FreshCell
                IN  Return("Clone", "immut", p, "-", dst, Val(p), 0, NoErr,
                           [mem EXCEPT ![c] = mem[reg[p]]],
                           [reg EXCEPT ![dst] = c])

-----------------------------------------------------------------------------
(* Serialization adapters on a *Dec *)

\* p.Unmarshal(data).  big.Int.UnmarshalText leaves the value undefined
\* when the text is malformed: here the old value or zero.
Unmarshal ==
    /\ CanCall
    /\ \E p \in Operands, data \in WireArgs :
        IF Len(data) = 0
        THEN \* d = nil assigns the method's own copy of the pointer
             Return("Unmarshal", "io", p, "-", p, Val(p), 0, NoErr, mem, reg)
        ELSE LET c  == IF reg[p] = NilPtr THEN FreshCell ELSE reg[p]
                 rg == [reg EXCEPT ![p] = c]
                 m0 == [mem EXCEPT ![c] = IF reg[p] = NilPtr THEN 0 ELSE mem[c]]
                 t  == SetString(data)
             IN  IF ~t.ok
                 THEN \E v \in {m0[c], 0} :
                        Return("Unmarshal", "io", p, "-", p, Val(p), 1,
                               "UnmarshalText", [m0 EXCEPT ![c] = v], rg)
                 ELSE IF BitLen(t.v) > maxDecBitLen
                 THEN Return("Unmarshal", "io", p, "-", p, Val(p), 1,
                             "decimal out of range", [m0 EXCEPT ![c] = t.v], rg)
                 ELSE Return("Unmarshal", "io", p, "-", p, Val(p), 1,
                             NoErr, [m0 EXCEPT ![c] = t.v], rg)

\* p.UnmarshalJSON(bz): bz is not a JSON string (isStr = FALSE) or is the
\* JSON string quoting s
UnmarshalJSON ==
    /\ CanCall
    /\ \E p \in Operands, isStr \in BOOLEAN, s \in StrArgs :
        LET c  == IF reg[p] = NilPtr THEN FreshCell ELSE reg[p]
            rg == [reg EXCEPT ![p] = c]
            m0 == [mem EXCEPT ![c] = IF reg[p] = NilPtr THEN 0 ELSE mem[c]]
            d  == NewDecFromStr(s)
        IN  IF ~isStr
            THEN /\ s = <<>>
                 /\ Return("UnmarshalJSON", "io", p, "-", p, Val(p), 0,
                           "json", m0, rg)
            ELSE IF d.nil
            THEN Return("UnmarshalJSON", "io", p, "-", p, Val(p), 1, d.err, m0, rg)
            ELSE \* d.i = newDec.i: p points to the new big.Int
                 LET n == CHOOSE e \in Cells :
                              e # c /\ \A k \in Names \ {p} : reg[k] # e
                 IN  Return("UnmarshalJSON", "io", p, "-", p, Val(p), 1, NoErr,
                            [m0 EXCEPT ![n] = d.v], [reg EXCEPT ![p] = n])

-----------------------------------------------------------------------------

Next ==
    \/ NewDecWithPrec \/ NewDecFromIntWithPrec \/ NewDecFromBigIntWithPrec
    \/ CallNewDecFromStr \/ Assign \/ Clone
    \/ Add \/ CallAddMut \/ Sub \/ CallSubMut
    \/ Mul \/ CallMulMut \/ MulTruncate \/ CallMulTruncateMut
    \/ Quo \/ CallQuoMut \/ QuoTruncate \/ CallQuoTruncateMut
    \/ QuoRoundUp \/ CallQuoRoundupMut
    \/ MulInt \/ CallMulIntMut \/ MulInt64 \/ MulInt64Mut
    \/ QuoInt \/ CallQuoIntMut \/ QuoInt64 \/ QuoInt64Mut
    \/ Power \/ CallPowerMut \/ CallSetInt64 \/ CallSet
    \/ CallNeg \/ CallNegMut \/ CallAbs \/ CallCeil \/ CallTruncateDec
    \/ Unmarshal \/ UnmarshalJSON

Spec == Init /\ [][Next]_vars

-----------------------------------------------------------------------------
(* Parsing and formatting: NewDecFromStr on every string over Alphabet of  *)
(* at most MaxStrLen characters, String on each Dec it returns, and        *)
(* NewDecFromStr on that rendering.                                        *)

MaxStrLen == 5

Alphabet == {"-", "+", ".", "0", "1", "9", "x"}

Strings == UNION {[1..n -> Alphabet] : n \in 0..MaxStrLen}

Prog == <<mem, reg, status, last, steps>>

InitStr ==
    /\ str \in Strings
    /\ parsed = NotYet /\ text = <<>> /\ reparsed = NotYet
    /\ IdleProg /\ IdleRoot /\ IdleSort

\* parsed, err = NewDecFromStr(str)
Parse ==
    /\ parsed = NotYet
    /\ parsed' = NewDecFromStr(str)
    /\ UNCHANGED <<Prog, str, text, reparsed, st, sa, sb, ka, kb>>

\* text = parsed.String()
Render ==
    /\ parsed # NotYet /\ ~parsed.nil /\ text = <<>>
    /\ text' = String(parsed.v)
    /\ UNCHANGED <<Prog, str, parsed, reparsed, st, sa, sb, ka, kb>>

\* reparsed, err = NewDecFromStr(text)
Reparse ==
    /\ text # <<>> /\ reparsed = NotYet
    /\ reparsed' = NewDecFromStr(text)
    /\ UNCHANGED <<Prog, str, parsed, text, st, sa, sb, ka, kb>>

NextStr == Parse \/ Render \/ Reparse

SpecStr == InitStr /\ [][NextStr]_vars

-----------------------------------------------------------------------------
(* Sortable encoding *)

\* the value of d.Op(d2) for Decs with scaled integers a and b and their
\* own storage; the call does not panic
ValueOf(mut, a, b) ==
    OpMut(mut, [c \in AllCells |-> IF c = 1 THEN a ELSE IF c = 2 THEN b ELSE 0],
          1, 2).mem[1]

\* MaxSortableDec = OneDec().Quo(SmallestDec())
MaxSortableDec == ValueOf("QuoMut", precisionReuse, 1)

ValidSortableDec(dec) == Abs(dec) <= MaxSortableDec

\* SortableDecBytes of a present Dec with scaled integer dec
SortableDecBytes(dec) ==
    IF ~ValidSortableDec(dec) THEN [panic |-> TRUE, bz |-> <<>>]
    ELSE IF dec = MaxSortableDec THEN [panic |-> FALSE, bz |-> <<"m", "a", "x">>]
    ELSE IF dec = Neg(MaxSortableDec) THEN [panic |-> FALSE, bz |-> <<"-", "-">>]
    ELSE IF dec < 0
    THEN [panic |-> FALSE,
          bz |-> <<"-">> \o PadZeros(Precision * 2 + 1, String(Abs(dec)))]
    ELSE [panic |-> FALSE, bz |-> PadZeros(Precision * 2 + 1, String(dec))]

\* the byte of a character
Byte(c) ==
    IF IsDigit(c) THEN 48 + DigitVal(c)
    ELSE IF c = "+" THEN 43
    ELSE IF c = "-" THEN 45
    ELSE IF c = "." THEN 46
    ELSE IF c = "a" THEN 97
    ELSE IF c = "m" THEN 109
    ELSE 120

\* bytes.Compare(k1, k2) < 0
RECURSIVE BytesLess(_, _)
BytesLess(k1, k2) ==
    IF Len(k2) = 0 THEN FALSE
    ELSE IF Len(k1) = 0 THEN TRUE
    ELSE IF Byte(k1[1]) # Byte(k2[1]) THEN Byte(k1[1]) < Byte(k2[1])
    ELSE BytesLess(Tail(k1), Tail(k2))

\* distance from zero, one and the sortable bounds of the Decs encoded
SortSpan == 12

SortVals ==
    {v \in (-(MaxSortableDec + 2))..(MaxSortableDec + 2) :
        \/ Abs(v) <= SortSpan
        \/ Abs(Abs(v) - precisionReuse) <= SortSpan
        \/ Abs(Abs(v) - MaxSortableDec) <= SortSpan}

NoKey == [panic |-> FALSE, bz |-> <<>>]

InitSort ==
    /\ sa \in SortVals /\ sb \in SortVals
    /\ ka = NoKey /\ kb = NoKey
    /\ IdleProg /\ IdleStr /\ IdleRoot

\* ka = SortableDecBytes(sa)
EncodeA ==
    /\ ka = NoKey
    /\ ka' = SortableDecBytes(sa)
    /\ UNCHANGED <<Prog, str, parsed, text, reparsed, st, sa, sb, kb>>

\* kb = SortableDecBytes(sb)
EncodeB ==
    /\ kb = NoKey
    /\ kb' = SortableDecBytes(sb)
    /\ UNCHANGED <<Prog, str, parsed, text, reparsed, st, sa, sb, ka>>

NextSort == EncodeA \/ EncodeB

SpecSort == InitSort /\ [][NextSort]_vars

-----------------------------------------------------------------------------
(* Rounding: the multiplications and quotients on two Decs with their own  *)
(* storage, drawn around zero and at the bit bound.                        *)

\* largest magnitude of the scaled integers drawn around zero
ArithSpan == 25

ArithVals == ((-ArithSpan)..ArithSpan) \cup {-MaxDecVal, MaxDecVal}

InitArith ==
    /\ \E a \in ArithVals, b \in ArithVals :
        mem = [c \in AllCells |-> IF c = 1 THEN a ELSE IF c = 2 THEN b ELSE 0]
    /\ reg = [n \in Names |-> IF n = "x" THEN 1 ELSE IF n = "y" THEN 2 ELSE NilPtr]
    /\ status = "run"
    /\ last = NoCall
    /\ steps = 0
    /\ IdleStr /\ IdleRoot /\ IdleSort

NextArith == Mul \/ MulTruncate \/ Quo \/ QuoTruncate \/ QuoRoundUp

SpecArith == InitArith /\ [][NextArith]_vars

-----------------------------------------------------------------------------
(* ApproxRoot, statement by statement.  st is the frame of the call: the   *)
(* position pc, the root, the cells of the receiver d, of guess and of     *)
(* delta, whether the frame is the recursive call made for a negative      *)
(* input (neg), the iteration counter, the error result, the exit taken    *)
(* (path) and whether an operation of the loop has panicked (ovf).         *)

\* largest magnitude of the inputs drawn around zero
RootSpan == 180

RootVals == ((-RootSpan)..RootSpan) \cup {-MaxDecVal, MaxDecVal}

\* root is an unsigned integer of ModelRootBits bits
RootArgs == 0..(Pow2(ModelRootBits) - 1)

\* int64(root): the conversion to the signed type of the same width
ToInt64(u) == IF u < Pow2(ModelRootBits - 1) THEN u ELSE u - Pow2(ModelRootBits)

OneDec == precisionReuse

SmallestDec == 1

\* the big.Int of the receiver, of d.Neg(), of guess, of delta and of prev
RecvCell == 1

NegCell == 2

GuessCell == 3

DeltaCell == 4

PrevCell == 5

RootFrame == <<reg, status, last, steps, str, parsed, text, reparsed, sa, sb, ka, kb>>

InitRoot ==
    /\ \E d \in RootVals : mem = [c \in AllCells |-> IF c = RecvCell THEN d ELSE 0]
    /\ reg = [n \in Names |-> IF n = "x" THEN RecvCell ELSE NilPtr]
    /\ status = "run"
    /\ last = NoCall
    /\ steps = 0
    /\ \E root \in RootArgs :
        st = [pc |-> "entry", root |-> root, d |-> RecvCell, neg |-> FALSE,
              guess |-> NilPtr, delta |-> NilPtr, iter |-> 0, err |-> NoErr,
              path |-> "none", ovf |-> FALSE]
    /\ IdleStr /\ IdleSort

\* the deferred function without its recover(): the panic leaves ApproxRoot
Unrecovered(f) == [f EXCEPT !.pc = "abort", !.ovf = TRUE]

\* the deferred function: a panic is recovered and becomes the error
\* result; guess, a named result, keeps the value it had
deferRecover(f) == [f EXCEPT !.pc = "ret", !.err = "out of bounds", !.ovf = TRUE]

\* the loop condition with the iteration bound off by one
LoopCondOffByOne(delta, iter) ==
    AbsInt(delta) > SmallestDec /\ iter <= maxApproxRootIterations

\* delta.Abs().GT(SmallestDec()) && iter < maxApproxRootIterations
LoopCond(delta, iter) ==
    AbsInt(delta) > SmallestDec /\ iter < maxApproxRootIterations

\* guess.Power(root - 1), and SmallestDec() in its place when it is zero
PrevStep(m, g, root) ==
    Then(PowerMut([m EXCEPT ![PrevCell] = m[g]], PrevCell, root - 1),
         [m1 \in Mem |-> Done([m1 EXCEPT ![PrevCell] =
                              IF m1[PrevCell] = 0 THEN SmallestDec ELSE m1[PrevCell]])])

\* delta.Set(d).QuoMut(prev); delta.SubMut(guess); delta.QuoInt64Mut(int64(root))
DeltaStep(m, d, g, dl, root) ==
    Then(Then(Then(Set(m, dl, d),
                   [m1 \in Mem |-> QuoMut(m1, dl, PrevCell)]),
              [m2 \in Mem |-> SubMut(m2, dl, g)]),
         [m3 \in Mem |-> QuoIntMut(m3, dl, ToInt64(root))])

\* the body of the loop
NewtonStep(m, d, g, dl, root) ==
    Release(Then(Then(PrevStep(m, g, root),
                      [m1 \in Mem |-> DeltaStep(m1, d, g, dl, root)]),
                 [m2 \in Mem |-> AddMut(m2, g, dl)]),
            PrevCell)

\* if d.IsNegative(): ApproxRoot is called on d.Neg()
RootNegative ==
    /\ st.pc = "entry"
    /\ mem[st.d] < 0
    /\ mem' = [mem EXCEPT ![NegCell] = Neg(mem[st.d])]
    /\ st' = [st EXCEPT !.d = NegCell, !.neg = TRUE]
    /\ UNCHANGED RootFrame

\* if root == 1 || d.IsZero() || d.Equal(OneDec()): return d, nil
RootInput ==
    /\ st.pc = "entry"
    /\ mem[st.d] >= 0
    /\ st.root = 1 \/ mem[st.d] = 0 \/ mem[st.d] = OneDec
    /\ st' = [st EXCEPT !.pc = "ret", !.guess = st.d, !.path = "input"]
    /\ UNCHANGED <<mem, RootFrame>>

\* if root == 0: return OneDec(), nil
RootZero ==
    /\ st.pc = "entry"
    /\ mem[st.d] >= 0
    /\ ~(st.root = 1 \/ mem[st.d] = 0 \/ mem[st.d] = OneDec)
    /\ st.root = 0
    /\ mem' = [mem EXCEPT ![GuessCell] = OneDec]
    /\ st' = [st EXCEPT !.pc = "ret", !.guess = GuessCell, !.path = "one"]
    /\ UNCHANGED RootFrame

\* guess, delta := OneDec(), OneDec()
RootStart ==
    /\ st.pc = "entry"
    /\ mem[st.d] >= 0
    /\ ~(st.root = 1 \/ mem[st.d] = 0 \/ mem[st.d] = OneDec)
    /\ st.root # 0
    /\ mem' = [mem EXCEPT ![GuessCell] = OneDec, ![DeltaCell] = OneDec]
    /\ st' = [st EXCEPT !.pc = "loop", !.guess = GuessCell, !.delta = DeltaCell,
                        !.iter = 0, !.path = "newton"]
    /\ UNCHANGED RootFrame

\* one iteration of the loop; a panic of one of its operations runs the
\* deferred function
RootIter ==
    /\ st.pc = "loop"
    /\ LoopCond(mem[st.delta], st.iter)
    /\ \E s \in {NewtonStep(mem, st.d, st.guess, st.delta, st.root)} :
        /\ mem' = s.mem
        /\ st' = IF s.panic THEN deferRecover(st)
                 ELSE [st EXCEPT !.iter = st.iter + 1]
    /\ UNCHANGED RootFrame

\* the loop condition is false: return guess, nil
RootExit ==
    /\ st.pc = "loop"
    /\ ~LoopCond(mem[st.delta], st.iter)
    /\ st' = [st EXCEPT !.pc = "ret"]
    /\ UNCHANGED <<mem, RootFrame>>

\* the return to the caller; from the recursive call, to the statement
\* return absRoot.NegMut(), err
RootReturn ==
    /\ st.pc = "ret"
    /\ mem' = IF st.neg THEN NegMut(mem, st.guess).mem ELSE mem
    /\ st' = [st EXCEPT !.pc = "done"]
    /\ UNCHANGED RootFrame

NextRoot ==
    \/ RootNegative \/ RootInput \/ RootZero \/ RootStart
    \/ RootIter \/ RootExit \/ RootReturn

SpecRoot == InitRoot /\ [][NextRoot]_vars

\* the statements of one call run to the return
SpecRootLive == SpecRoot /\ WF_vars(NextRoot)

-----------------------------------------------------------------------------
(* Claims on the calls *)

\* a call has returned (the caller was not aborted by a panic)
Returned(ops) == status = "run" /\ last.op \in ops

\* C1: after any sequence of constructor calls, arithmetic and rounding
\* operations and Unmarshal/UnmarshalJSON calls, every present Dec has a
\* scaled integer of at most maxDecBitLen bits.
C1_BitLenBound ==
    status = "run" =>
        \A n \in Names : reg[n] # NilPtr => BitLen(mem[reg[n]]) <= maxDecBitLen

\* C4: Unmarshal with empty input returns no error and leaves the receiver
\* absent (IsNil), whatever it held before.
C4_UnmarshalEmptyIsNil ==
    (Returned({"Unmarshal"}) /\ last.b = 0) =>
        (last.err = NoErr /\ reg[last.p] = NilPtr)

\* C6: an immutable-form operator leaves the scaled integer of its receiver
\* and of its operand unchanged, also when they share storage; Clone returns
\* a Dec that shares storage with no other, and a mutable operation changes
\* no Dec that does not share the receiver's storage.
C6_ImmutableFrame ==
    /\ last.kind = "immut" =>
          \A n \in Names \ {last.dst} :
              Val(n) = last.pre[n] /\ (reg[n] = NilPtr <=> n \in last.nil)
    /\ Returned({"Clone"}) =>
          /\ Val(last.dst) = last.pre[last.p]
          /\ \A n \in Names \ {last.dst} : reg[n] # reg[last.dst]
    /\ last.kind = "mut" =>
          \A n \in Names \ last.sh :
              Val(n) = last.pre[n] /\ (reg[n] = NilPtr <=> n \in last.nil)

ImmutableOps ==
    {"Add", "Sub", "Mul", "MulTruncate", "Quo", "QuoTruncate", "QuoRoundUp",
     "MulInt", "MulInt64", "QuoInt", "QuoInt64", "Power", "Neg", "Abs"}

\* C6 witness: an immutable operator has returned a result different from
\* its receiver, called with the receiver itself as operand (shared storage)
C6_Witness ==
    /\ Returned(ImmutableOps)
    /\ last.q \in last.sh
    /\ Val("r") # last.pre[last.p]
    /\ Val(last.p) = last.pre[last.p]

-----------------------------------------------------------------------------
(* Claims on parsing and formatting *)

\* the position of the first point of s, or Len(s) + 1
PointAt(s) ==
    IF \E i \in 1..Len(s) : s[i] = "."
    THEN CHOOSE i \in 1..Len(s) : s[i] = "." /\ \A j \in 1..(i - 1) : s[j] # "."
    ELSE Len(s) + 1

Unsigned(s) == IF Len(s) > 0 /\ s[1] = "-" THEN SubSeq(s, 2, Len(s)) ELSE s

IntPart(s) == SubSeq(Unsigned(s), 1, PointAt(Unsigned(s)) - 1)

FracPart(s) == SubSeq(Unsigned(s), PointAt(Unsigned(s)) + 1, Len(Unsigned(s)))

HasPoint(s) == PointAt(Unsigned(s)) <= Len(Unsigned(s))

\* the grammar of a decimal string: an optional "-", one or more digits,
\* optionally a point followed by 1 to Precision digits
Grammatical(s) ==
    /\ Len(IntPart(s)) >= 1 /\ AllDigits(IntPart(s))
    /\ AllDigits(FracPart(s))
    /\ HasPoint(s) => (Len(FracPart(s)) >= 1 /\ Len(FracPart(s)) <= Precision)
    /\ ~HasPoint(s) => Len(FracPart(s)) = 0

\* the magnitude of a grammatical string, scaled by 10^Precision
Magnitude(s) ==
    DigitsVal(IntPart(s)) * Pow10(Precision)
        + DigitsVal(FracPart(s)) * Pow10(Precision - Len(FracPart(s)))

\* a valid decimal string: grammatical, the magnitude within the bit bound
ValidDecStr(s) == Grammatical(s) /\ Magnitude(s) < Pow2(maxDecBitLen)

RECURSIVE StripZeros(_)
StripZeros(s) ==
    IF Len(s) > 1 /\ s[1] = "0" THEN StripZeros(Tail(s)) ELSE s

\* the canonical rendering of a valid string: its sign unless the value is
\* zero, the integer digits without leading zeros, the point, and the
\* fractional digits filled with zeros to Precision
Canonical(s) ==
    LET digits == IntPart(s) \o FracPart(s)
        minus  == s[1] = "-" /\ \E i \in 1..Len(digits) : digits[i] # "0"
    IN  (IF minus THEN <<"-">> ELSE <<>>) \o StripZeros(IntPart(s)) \o <<".">>
            \o FracPart(s) \o Zeros(Precision - Len(FracPart(s)))

\* C3: for every valid decimal string s, String(NewDecFromStr(s)) is the
\* canonical rendering of s with exactly Precision fractional digits, and
\* parsing that rendering yields a Dec equal to NewDecFromStr(s).
C3_RoundTrip ==
    /\ (ValidDecStr(str) /\ parsed # NotYet) =>
          (~parsed.nil /\ parsed.err = NoErr)
    /\ (ValidDecStr(str) /\ text # <<>>) => text = Canonical(str)
    /\ reparsed # NotYet => reparsed = parsed

\* C3 witness: a valid negative string that is not its own canonical
\* rendering has been parsed, rendered and parsed again
C3_Witness ==
    /\ ValidDecStr(str) /\ reparsed # NotYet
    /\ parsed.v < 0 /\ text # str

\* C7: NewDecFromStr returns a Dec with no error only for valid decimal
\* strings; every other input returns an error.
C7_ParseRejects ==
    parsed # NotYet => (parsed.err = NoErr => ValidDecStr(str))

-----------------------------------------------------------------------------
(* Claims on the sortable encoding *)

\* C2: for all present a and b with |a| <= MaxSortableDec and
\* |b| <= MaxSortableDec, a < b iff SortableDecBytes(a) is strictly less
\* than SortableDecBytes(b) in byte-wise lexicographic order.
C2_SortableOrder ==
    (ka # NoKey /\ kb # NoKey /\ ValidSortableDec(sa) /\ ValidSortableDec(sb)) =>
        (sa < sb <=> BytesLess(ka.bz, kb.bz))

-----------------------------------------------------------------------------
(* Claims on rounding *)

\* quotient and remainder of |m| divided by 10^Precision
ChopQ(m) == AbsInt(m) \div Pow10(Precision)

ChopR(m) == AbsInt(m) % Pow10(Precision)

\* half unit
HalfUnit == Pow10(Precision) \div 2

\* round-half-to-even of m / 10^Precision, the sign reapplied
HalfEven(m) ==
    Sign(m) * (IF ChopR(m) < HalfUnit THEN ChopQ(m)
               ELSE IF ChopR(m) > HalfUnit THEN ChopQ(m) + 1
               ELSE IF ChopQ(m) % 2 = 0 THEN ChopQ(m)
               ELSE ChopQ(m) + 1)

\* receiver and operand of the last call, before the call
LastA == last.pre[last.p]

LastB == last.pre[last.q]

\* C8: for all present a and b whose product stays within the bit bound,
\* Mul(a, b) is the product of the scaled integers divided by 10^Precision
\* and rounded half to even, the sign reapplied; hence Mul(-a, b) is
\* -Mul(a, b) and Mul(a, b) is Mul(b, a).
C8_MulHalfEven ==
    Returned({"Mul"}) =>
        /\ Val("r") = HalfEven(LastA * LastB)
        /\ ValueOf("MulMut", -LastA, LastB) = -Val("r")
        /\ ValueOf("MulMut", LastB, LastA) = Val("r")

\* C8 witness: Mul has returned a negative product that lay exactly on a
\* half unit above an odd quotient
C8_Witness ==
    /\ Returned({"Mul"})
    /\ LastA * LastB < 0
    /\ ChopR(LastA * LastB) = HalfUnit
    /\ ChopQ(LastA * LastB) % 2 = 1
    /\ Val("r") = -(ChopQ(LastA * LastB) + 1)

\* the integer quotient of a * 10^(2 * Precision) by b
ScaledQuo(a, b) == TQuo(a * Pow10(2 * Precision), b)

\* C9 as claimed: QuoRoundUp(a, b) rounds away from zero whenever the
\* remainder is not zero, for a negative quotient as for a positive one.
C9_RoundUpAwayFromZero ==
    Returned({"QuoRoundUp"}) =>
        LET m == ScaledQuo(LastA, LastB)
        IN  Val("r") = Sign(m) * (IF ChopR(m) = 0 THEN ChopQ(m) ELSE ChopQ(m) + 1)

\* C9 amended: QuoRoundUp(a, b) rounds a positive quotient with a non-zero
\* remainder up, and truncates a negative quotient toward zero: the result
\* is the ceiling of the quotient.
C9_RoundUpCeiling ==
    Returned({"QuoRoundUp"}) =>
        LET m == ScaledQuo(LastA, LastB)
        IN  Val("r") = IF m < 0 THEN -ChopQ(m)
                       ELSE IF ChopR(m) = 0 THEN ChopQ(m) ELSE ChopQ(m) + 1

\* C9 witness: QuoRoundUp has returned for a negative quotient with a
\* non-zero remainder
C9_Witness ==
    /\ Returned({"QuoRoundUp"})
    /\ ScaledQuo(LastA, LastB) < 0
    /\ ChopR(ScaledQuo(LastA, LastB)) # 0
    /\ Val("r") = -ChopQ(ScaledQuo(LastA, LastB))

-----------------------------------------------------------------------------
(* Claims on ApproxRoot *)

\* C5: for every present input d of either sign and every root, ApproxRoot
\* never aborts its caller: an overflow raised in the Newton loop, also in
\* the recursive call made for a negative input, is caught and ApproxRoot
\* returns with a non-nil error.
C5_RootRecovers ==
    /\ st.pc # "abort"
    /\ status = "run"
    /\ st.ovf => st.pc \in {"ret", "done"} /\ st.err # NoErr

\* C5 witness: the call for a negative input has returned after an
\* overflow in the loop of the recursive call
C5_Witness ==
    /\ st.pc = "done"
    /\ st.neg
    /\ st.ovf
    /\ st.iter > 0
    /\ st.err # NoErr

\* the input of the call and its magnitude
RootIn == mem[RecvCell]

\* the special cases in the order of the claim, and the result of each
C10_Cases ==
    st.pc = "done" =>
        /\ st.neg <=> RootIn < 0
        /\ IF st.root = 1 \/ AbsInt(RootIn) = 0 \/ AbsInt(RootIn) = Pow10(Precision)
           THEN st.path = "input" /\ mem[st.guess] = RootIn /\ st.err = NoErr
           ELSE IF st.root = 0
           THEN /\ st.path = "one"
                /\ mem[st.guess] = Sign(RootIn) * Pow10(Precision)
                /\ st.err = NoErr
           ELSE /\ st.path = "newton"
                /\ ~st.ovf => /\ st.err = NoErr
                              /\ st.guess # NilPtr
                              /\ \/ AbsInt(mem[st.delta]) <= 1
                                 \/ st.iter = 100

\* C10: for every present input d and every root ApproxRoot terminates:
\* the loop runs at most 100 iterations and stops as soon as |delta| is at
\* most the smallest unit; when the iterations are exhausted without
\* overflow the last guess is returned with a nil error; the special cases
\* are decided before the loop: negative input, then root == 1, d == 0 or
\* d == 1 returning d, then root == 0 returning one.
C10_RootTerminates ==
    /\ [](st.iter <= 100)
    /\ []C10_Cases
    /\ [][(st.pc = "loop" /\ AbsInt(mem[st.delta]) <= 1)
            => (st'.pc = "ret" /\ st'.iter = st.iter /\ st'.err = NoErr)]_vars
    /\ <>(st.pc = "done")

\* C10 witness: the call has returned the last guess with a nil error
\* after 100 iterations that did not reach the threshold
C10_Witness ==
    /\ st.pc = "done"
    /\ st.path = "newton"
    /\ st.iter = 100
    /\ AbsInt(mem[st.delta]) > 1
    /\ ~st.ovf
    /\ st.err = NoErr

-----------------------------------------------------------------------------
(* Claims on the mutable forms and on the quotient *)

\* the binary operators that have a mutable form
BinaryMutOps ==
    {"AddMut", "SubMut", "MulMut", "MulTruncateMut",
     "QuoMut", "QuoTruncateMut", "QuoRoundupMut"}

\* C11: for every binary operator with a mutable form and all present
\* operands, the value x.OpMut(y) leaves in the receiver is the value the
\* immutable x.Op(y) returns on the same input values, also when y shares
\* its big.Int with x.
C11_MutEqualsImmut ==
    Returned(BinaryMutOps) => Val(last.p) = ValueOf(last.op, LastA, LastB)

\* the rational n / d rounded to the nearest integer, a tie to the even one
NearestEven(n, d) ==
    LET q == AbsInt(n) \div AbsInt(d)
        r == AbsInt(n) % AbsInt(d)
    IN  Sign(n) * Sign(d) * (IF 2 * r < AbsInt(d) THEN q
                             ELSE IF 2 * r > AbsInt(d) THEN q + 1
                             ELSE IF q % 2 = 0 THEN q
                             ELSE q + 1)

\* C12: for all present a and non-zero b whose quotient stays within the bit
\* bound, Quo(a, b) is the exact quotient a / b rounded to the nearest
\* multiple of the smallest unit, the even one only when the exact quotient
\* lies exactly halfway between two multiples.
C12_QuoNearest ==
    Returned({"Quo"}) => Val("r") = NearestEven(LastA * Pow10(Precision), LastB)

====
